---- MODULE Spec2Model ----
(***************************************************************************)
(* State-machine model of the fanbase pallet (pallets/fanbase/src):         *)
(* creator accounts, launch tokens (templates), issued tokens and the       *)
(* marketplace calls that act on them.                                       *)
(*                                                                           *)
(* Every dispatchable of lib.rs is one action.  A dispatchable is modelled   *)
(* as a function from the storage (a record of the eight storage items and   *)
(* the currency balances) to an outcome [st, res, val]: st is the storage    *)
(* as the call's own writes left it, res is "Ok", the name of the Error      *)
(* variant returned, or "Panic", and val is the id an Ok call returns.       *)
(* Nothing is rolled back when an Error is returned: what the code wrote     *)
(* before returning stays written.                                           *)
(***************************************************************************)
EXTENDS Integers, Sequences, FiniteSets, TLC

(***************************************************************************)
(* Bounds of the model.                                                     *)
(***************************************************************************)
\* Largest value of a TokenId: u128::MAX of types/token.rs scaled down, so that
\* checked_add(1) overflows within the model.
TokenIdMax == 2

(***************************************************************************)
(* Program constants.                                                       *)
(***************************************************************************)
\* Config::MaxCreatorAccounts, Config::MaxLaunchTokens.
MaxCreatorAccounts == 1
MaxLaunchTokens == 1
\* Minimum balance an account keeps in a KeepAlive transfer.
ExistentialDeposit == 1

Accounts == {"A", "B"}
CreatorIds == {"c1", "c2"}
TokenIds == 1..TokenIdMax
\* Amounts a call may bid.
Prices == {1, 2}
\* The runs the model explores.  A run fixes the runtime's Config::MaxTokens, the
\* balances the accounts start with, the prices its calls set and the supplies
\* its mints pass: the market run varies the prices and lets an account hold one
\* token, the supply run varies the supplies and lets an account hold two.
Universes ==
    {[prices |-> {1, 2}, supplies |-> {1}, balances |-> [A |-> 3, B |-> 1],
      MaxTokens |-> 1],
     [prices |-> {1}, supplies |-> {0, 2}, balances |-> [A |-> 2, B |-> 1],
      MaxTokens |-> 2]}

(***************************************************************************)
(* Option<T>: None is the empty set, Some(x) the singleton {x}.             *)
(***************************************************************************)
None == {}
Some(x) == {x}
IsSome(o) == o # {}
IsNone(o) == o = {}
Unwrap(o) == CHOOSE x \in o : TRUE

\* u32::saturating_add.  It saturates at u32::MAX = 4294967295, which no count of
\* this model comes near (every count is at most TokenIdMax), so the sum is exact.
saturating_add(a, b) == a + b

\* u32::saturating_sub: floors at zero.
saturating_sub(a, b) == IF a >= b THEN a - b ELSE 0

(***************************************************************************)
(* BoundedVec<T, S>.                                                        *)
(***************************************************************************)
\* try_push: None when the vector already holds max elements.
try_push(vec, x, max) == IF Len(vec) >= max THEN None ELSE Some(Append(vec, x))

\* iter().position(|id| id == x): the first index holding x, 0 for None.
position(vec, x) ==
    IF \E i \in 1..Len(vec) : vec[i] = x
    THEN CHOOSE i \in 1..Len(vec) : vec[i] = x /\ \A j \in 1..(i - 1) : vec[j] # x
    ELSE 0

\* swap_remove(index): the last element takes the place of the removed one.
swap_remove(vec, i) ==
    [j \in 1..(Len(vec) - 1) |-> IF j = i THEN vec[Len(vec)] ELSE vec[j]]

\* if let Some(index) = ids.iter().position(..) { ids.swap_remove(index); }
remove_id(vec, x) ==
    IF position(vec, x) = 0 THEN vec ELSE swap_remove(vec, position(vec, x))

Range(vec) == {vec[i] : i \in 1..Len(vec)}
NoDuplicates(vec) == \A i, j \in 1..Len(vec) : vec[i] = vec[j] => i = j

(***************************************************************************)
(* Records of types/.                                                       *)
(***************************************************************************)
\* Creator::new
Creator_new(id, owner) == [id |-> id, owner |-> Some(owner)]

\* Creator::disconnect
disconnect(creator) == [creator EXCEPT !.owner = None]

\* LaunchToken::new
LaunchToken_new(id, creator, price, supply) ==
    [id |-> id, creator |-> creator, price |-> price,
     supply |-> supply, issued |-> 0, destroyed |-> 0]

\* LaunchToken::total_supply
total_supply(lt) == saturating_add(lt.supply, lt.destroyed)

\* Mutant: an issuance that forgets to count the issued token.
keep_issued(lt) == lt

\* LaunchToken::bump_issued
bump_issued(lt) == [lt EXCEPT !.issued = saturating_add(lt.issued, 1)]

\* Mutant: a burn that decreases supply and forgets to count the destroyed token.
decrease_supply_only(lt) == [lt EXCEPT !.supply = saturating_sub(lt.supply, 1)]

\* Mutant: a burn that counts the destroyed token and leaves supply as it was.
bump_destroyed_only(lt) == [lt EXCEPT !.destroyed = saturating_add(lt.destroyed, 1)]

\* LaunchToken::bump_destroyed_and_decrease_supply
bump_destroyed_and_decrease_supply(lt) ==
    [lt EXCEPT !.supply = saturating_sub(lt.supply, 1),
               !.destroyed = saturating_add(lt.destroyed, 1)]

\* Token::new
Token_new(owner, id, launch_token) ==
    [id |-> id, launch_id |-> launch_token.id, creator |-> launch_token.creator,
     owner |-> owner, price |-> None]

(***************************************************************************)
(* Outcome of a call.                                                       *)
(***************************************************************************)
Ok(s, v) == [st |-> s, res |-> "Ok", val |-> v]
Err(s, e) == [st |-> s, res |-> e, val |-> 0]

(***************************************************************************)
(* Currency collaborator (frame_support::traits::Currency), as spec.md      *)
(* section 6 describes it.                                                   *)
(***************************************************************************)
\* free_balance(account)
free_balance(s, account) == s.Balances[account]

\* transfer(from, to, amount, KeepAlive): None for Err.  The payer must keep
\* ExistentialDeposit; moving funds to oneself or moving nothing changes nothing.
Currency_transfer(s, from, to, amount) ==
    IF from = to \/ amount = 0 THEN Some(s)
    ELSE IF s.Balances[from] < amount + ExistentialDeposit THEN None
    ELSE Some([s EXCEPT !.Balances[from] = @ - amount, !.Balances[to] = @ + amount])

(***************************************************************************)
(* internal/creator.rs                                                      *)
(***************************************************************************)
ensure_account_owns_creator(s, account, creator_id) ==
    /\ IsSome(s.Creators[creator_id])
    /\ Unwrap(s.Creators[creator_id]).owner = Some(account)

\* Mutant: the creator id is pushed without a capacity check.
add_new_creator_unbounded(s, creator_id, account) ==
    IF ~IsNone(s.Creators[creator_id]) THEN Err(s, "CreatorAccountTaken")
    ELSE LET s1 == [s EXCEPT !.CreatorIdsForAccount[account] = Append(@, creator_id)]
             s2 == [s1 EXCEPT !.Creators[creator_id] =
                                  Some(Creator_new(creator_id, account))]
         IN  Ok(s2, 0)

\* Mutant: an id whose creator has been disconnected counts as free.
add_new_creator_reclaims(s, creator_id, account) ==
    IF IsSome(s.Creators[creator_id]) /\ IsSome(Unwrap(s.Creators[creator_id]).owner)
    THEN Err(s, "CreatorAccountTaken")
    ELSE LET pushed == try_push(s.CreatorIdsForAccount[account], creator_id,
                                MaxCreatorAccounts)
         IN  IF IsNone(pushed) THEN Err(s, "MaxCreatorAccountsReached")
             ELSE LET s1 == [s EXCEPT !.CreatorIdsForAccount[account] = Unwrap(pushed)]
                      s2 == [s1 EXCEPT !.Creators[creator_id] =
                                           Some(Creator_new(creator_id, account))]
                  IN  Ok(s2, 0)

add_new_creator_to_account(s, creator_id, account) ==
    IF ~IsNone(s.Creators[creator_id]) THEN Err(s, "CreatorAccountTaken")
    ELSE LET pushed == try_push(s.CreatorIdsForAccount[account], creator_id,
                                MaxCreatorAccounts)
         IN  IF IsNone(pushed) THEN Err(s, "MaxCreatorAccountsReached")
             ELSE LET s1 == [s EXCEPT !.CreatorIdsForAccount[account] = Unwrap(pushed)]
                      s2 == [s1 EXCEPT !.Creators[creator_id] =
                                           Some(Creator_new(creator_id, account))]
                  IN  Ok(s2, 0)

\* Mutant: the creator id stays in the account's index.
remove_creator_keeps_index(s, creator_id, account) ==
    IF ~ensure_account_owns_creator(s, account, creator_id) THEN Err(s, "NotOwner")
    ELSE IF Len(s.LaunchTokenIdsForCreator[creator_id]) = 0
    THEN Ok([s EXCEPT !.Creators[creator_id] = None], 0)
    ELSE Ok([s EXCEPT !.Creators[creator_id] =
                          Some(disconnect(Unwrap(s.Creators[creator_id])))], 0)

\* Mutant: the creator record is removed without looking for launch tokens that
\* reference it.
remove_creator_unconditionally(s, creator_id, account) ==
    IF ~ensure_account_owns_creator(s, account, creator_id) THEN Err(s, "NotOwner")
    ELSE LET s1 == [s EXCEPT !.Creators[creator_id] = None]
             s2 == [s1 EXCEPT !.CreatorIdsForAccount[account] = remove_id(@, creator_id)]
         IN  Ok(s2, 0)

\* Mutant: the creator is disconnected even when no launch token references it.
remove_creator_always_disconnects(s, creator_id, account) ==
    IF ~ensure_account_owns_creator(s, account, creator_id) THEN Err(s, "NotOwner")
    ELSE LET s1 == [s EXCEPT !.Creators[creator_id] =
                                 Some(disconnect(Unwrap(s.Creators[creator_id])))]
             s2 == [s1 EXCEPT !.CreatorIdsForAccount[account] = remove_id(@, creator_id)]
         IN  Ok(s2, 0)

remove_creator_from_account(s, creator_id, account) ==
    IF ~ensure_account_owns_creator(s, account, creator_id) THEN Err(s, "NotOwner")
    ELSE LET s1 == IF Len(s.LaunchTokenIdsForCreator[creator_id]) = 0
                   THEN [s EXCEPT !.Creators[creator_id] = None]
                   ELSE [s EXCEPT !.Creators[creator_id] =
                                      Some(disconnect(Unwrap(s.Creators[creator_id])))]
             s2 == [s1 EXCEPT !.CreatorIdsForAccount[account] = remove_id(@, creator_id)]
         IN  Ok(s2, 0)

(***************************************************************************)
(* internal/token.rs                                                        *)
(***************************************************************************)
\* Mutant: the new nonce is never written back.
unchecked_mint_keeps_nonce(s, creator_id, price, supply) ==
    IF s.LaunchIssuanceNonce >= TokenIdMax THEN Err(s, "LaunchTokensOverflow")
    ELSE LET next_token_id == s.LaunchIssuanceNonce + 1
             pushed == try_push(s.LaunchTokenIdsForCreator[creator_id], next_token_id,
                                MaxLaunchTokens)
         IN  IF IsNone(pushed) THEN Err(s, "MaxLaunchTokensReached")
             ELSE LET s1 == [s EXCEPT !.LaunchTokenIdsForCreator[creator_id] =
                                          Unwrap(pushed)]
                      s2 == [s1 EXCEPT !.LaunchTokens[next_token_id] =
                                 Some(LaunchToken_new(next_token_id, creator_id, price,
                                                      supply))]
                  IN  Ok(s2, next_token_id)

\* Mutant: the launch token is saved and the nonce advanced before the creator's
\* index is pushed to.
unchecked_mint_counter_first(s, creator_id, price, supply) ==
    IF s.LaunchIssuanceNonce >= TokenIdMax THEN Err(s, "LaunchTokensOverflow")
    ELSE LET next_token_id == s.LaunchIssuanceNonce + 1
             s1 == [s EXCEPT !.LaunchTokens[next_token_id] =
                        Some(LaunchToken_new(next_token_id, creator_id, price, supply))]
             s2 == [s1 EXCEPT !.LaunchIssuanceNonce = next_token_id]
             pushed == try_push(s.LaunchTokenIdsForCreator[creator_id], next_token_id,
                                MaxLaunchTokens)
         IN  IF IsNone(pushed) THEN Err(s2, "MaxLaunchTokensReached")
             ELSE Ok([s2 EXCEPT !.LaunchTokenIdsForCreator[creator_id] = Unwrap(pushed)],
                     next_token_id)

unchecked_mint(s, creator_id, price, supply) ==
    IF s.LaunchIssuanceNonce >= TokenIdMax THEN Err(s, "LaunchTokensOverflow")
    ELSE LET next_token_id == s.LaunchIssuanceNonce + 1
             pushed == try_push(s.LaunchTokenIdsForCreator[creator_id], next_token_id,
                                MaxLaunchTokens)
         IN  IF IsNone(pushed) THEN Err(s, "MaxLaunchTokensReached")
             ELSE LET s1 == [s EXCEPT !.LaunchTokenIdsForCreator[creator_id] =
                                          Unwrap(pushed)]
                      s2 == [s1 EXCEPT !.LaunchTokens[next_token_id] =
                                 Some(LaunchToken_new(next_token_id, creator_id, price,
                                                      supply))]
                      s3 == [s2 EXCEPT !.LaunchIssuanceNonce = next_token_id]
                  IN  Ok(s3, next_token_id)

\* Mutant: the new token id is never written back to the nonce.
unchecked_launch_transfer_keeps_nonce(s, receiver, launch_token_id) ==
    IF s.IssuanceNonce >= TokenIdMax THEN Err(s, "TokensOverflow")
    ELSE IF IsNone(s.LaunchTokens[launch_token_id]) THEN Err(s, "TokenNotFound")
    ELSE LET next_token_id == s.IssuanceNonce + 1
             launch_token == Unwrap(s.LaunchTokens[launch_token_id])
         IN  IF launch_token.issued < total_supply(launch_token)
             THEN LET pushed == try_push(s.TokenIdsForAccount[receiver], next_token_id,
                                         s.MaxTokens)
                  IN  IF IsNone(pushed) THEN Err(s, "MaxTokensReached")
                      ELSE LET s1 == [s EXCEPT !.TokenIdsForAccount[receiver] =
                                                   Unwrap(pushed)]
                               s2 == [s1 EXCEPT !.Tokens[next_token_id] =
                                          Some(Token_new(receiver, next_token_id,
                                                         launch_token))]
                               s3 == [s2 EXCEPT !.LaunchTokens[launch_token_id] =
                                          Some(bump_issued(Unwrap(@)))]
                           IN  Ok(s3, next_token_id)
             ELSE Err(s, "TokenSoldOut")

unchecked_launch_transfer(s, receiver, launch_token_id) ==
    IF s.IssuanceNonce >= TokenIdMax THEN Err(s, "TokensOverflow")
    ELSE IF IsNone(s.LaunchTokens[launch_token_id]) THEN Err(s, "TokenNotFound")
    ELSE LET next_token_id == s.IssuanceNonce + 1
             launch_token == Unwrap(s.LaunchTokens[launch_token_id])
         IN  IF launch_token.issued < total_supply(launch_token)
             THEN LET pushed == try_push(s.TokenIdsForAccount[receiver], next_token_id,
                                         s.MaxTokens)
                  IN  IF IsNone(pushed) THEN Err(s, "MaxTokensReached")
                      ELSE LET s1 == [s EXCEPT !.TokenIdsForAccount[receiver] =
                                                   Unwrap(pushed)]
                               s2 == [s1 EXCEPT !.Tokens[next_token_id] =
                                          Some(Token_new(receiver, next_token_id,
                                                         launch_token))]
                               s3 == [s2 EXCEPT !.LaunchTokens[launch_token_id] =
                                          Some(bump_issued(Unwrap(@)))]
                               s4 == [s3 EXCEPT !.IssuanceNonce = next_token_id]
                           IN  Ok(s4, next_token_id)
             ELSE Err(s, "TokenSoldOut")

\* Mutant: the token id is not removed from the previous owner's index.
unchecked_transfer_no_remove(s, owner, receiver, token_id) ==
    IF IsNone(s.Tokens[token_id]) THEN Err(s, "TokenNotFound")
    ELSE LET token == Unwrap(s.Tokens[token_id])
             pushed == try_push(s.TokenIdsForAccount[receiver], token_id, s.MaxTokens)
         IN  IF IsNone(pushed) THEN Err(s, "MaxTokensReached")
             ELSE LET s1 == [s EXCEPT !.TokenIdsForAccount[receiver] = Unwrap(pushed)]
                      s3 == [s1 EXCEPT !.Tokens[token_id] =
                                           Some([token EXCEPT !.owner = receiver])]
                  IN  Ok(s3, 0)

\* Mutant: the token id leaves the owner's index before the receiver's index is
\* pushed to.
unchecked_transfer_remove_first(s, owner, receiver, token_id) ==
    IF IsNone(s.Tokens[token_id]) THEN Err(s, "TokenNotFound")
    ELSE LET token == Unwrap(s.Tokens[token_id])
             s1 == [s EXCEPT !.TokenIdsForAccount[owner] = remove_id(@, token_id)]
             pushed == try_push(s1.TokenIdsForAccount[receiver], token_id, s1.MaxTokens)
         IN  IF IsNone(pushed) THEN Err(s1, "MaxTokensReached")
             ELSE LET s2 == [s1 EXCEPT !.TokenIdsForAccount[receiver] = Unwrap(pushed)]
                      s3 == [s2 EXCEPT !.Tokens[token_id] =
                                           Some([token EXCEPT !.owner = receiver])]
                  IN  Ok(s3, 0)

\* Mutant: a transfer takes the token off the market.
unchecked_transfer_clears_price(s, owner, receiver, token_id) ==
    IF IsNone(s.Tokens[token_id]) THEN Err(s, "TokenNotFound")
    ELSE LET token == Unwrap(s.Tokens[token_id])
             pushed == try_push(s.TokenIdsForAccount[receiver], token_id, s.MaxTokens)
         IN  IF IsNone(pushed) THEN Err(s, "MaxTokensReached")
             ELSE LET s1 == [s EXCEPT !.TokenIdsForAccount[receiver] = Unwrap(pushed)]
                      s2 == [s1 EXCEPT !.TokenIdsForAccount[owner] =
                                           remove_id(@, token_id)]
                      s3 == [s2 EXCEPT !.Tokens[token_id] =
                                 Some([token EXCEPT !.owner = receiver, !.price = None])]
                  IN  Ok(s3, 0)

\* Mutant: a transfer to the owner itself returns early.
unchecked_transfer_self_returns(s, owner, receiver, token_id) ==
    IF IsNone(s.Tokens[token_id]) THEN Err(s, "TokenNotFound")
    ELSE IF owner = receiver THEN Ok(s, 0)
    ELSE LET token == Unwrap(s.Tokens[token_id])
             pushed == try_push(s.TokenIdsForAccount[receiver], token_id, s.MaxTokens)
         IN  IF IsNone(pushed) THEN Err(s, "MaxTokensReached")
             ELSE LET s1 == [s EXCEPT !.TokenIdsForAccount[receiver] = Unwrap(pushed)]
                      s2 == [s1 EXCEPT !.TokenIdsForAccount[owner] =
                                           remove_id(@, token_id)]
                      s3 == [s2 EXCEPT !.Tokens[token_id] =
                                           Some([token EXCEPT !.owner = receiver])]
                  IN  Ok(s3, 0)

unchecked_transfer(s, owner, receiver, token_id) ==
    IF IsNone(s.Tokens[token_id]) THEN Err(s, "TokenNotFound")
    ELSE LET token == Unwrap(s.Tokens[token_id])
             pushed == try_push(s.TokenIdsForAccount[receiver], token_id, s.MaxTokens)
         IN  IF IsNone(pushed) THEN Err(s, "MaxTokensReached")
             ELSE LET s1 == [s EXCEPT !.TokenIdsForAccount[receiver] = Unwrap(pushed)]
                      s2 == [s1 EXCEPT !.TokenIdsForAccount[owner] =
                                           remove_id(@, token_id)]
                      s3 == [s2 EXCEPT !.Tokens[token_id] =
                                           Some([token EXCEPT !.owner = receiver])]
                  IN  Ok(s3, 0)

unchecked_set_launch_price(s, launch_token_id, price) ==
    IF IsNone(s.LaunchTokens[launch_token_id]) THEN Err(s, "TokenNotFound")
    ELSE Ok([s EXCEPT !.LaunchTokens[launch_token_id] =
                          Some([Unwrap(@) EXCEPT !.price = price])], 0)

\* price is an Option<Balance>
unchecked_set_price(s, token_id, price) ==
    IF IsNone(s.Tokens[token_id]) THEN Err(s, "TokenNotFound")
    ELSE Ok([s EXCEPT !.Tokens[token_id] = Some([Unwrap(@) EXCEPT !.price = price])], 0)

\* Mutant: the token record is not removed.
unchecked_burn_keeps_token(s, token_id) ==
    IF IsNone(s.Tokens[token_id]) THEN Err(s, "TokenNotFound")
    ELSE LET token == Unwrap(s.Tokens[token_id])
             s1 == [s EXCEPT !.TokenIdsForAccount[token.owner] = remove_id(@, token.id)]
         IN  IF IsNone(s1.LaunchTokens[token.launch_id])
             THEN Err(s1, "Panic")
             ELSE Ok([s1 EXCEPT !.LaunchTokens[token.launch_id] =
                         Some(bump_destroyed_and_decrease_supply(Unwrap(@)))], 0)

\* Mutant: the launch token is not told of the burn.
unchecked_burn_skips_launch_token(s, token_id) ==
    IF IsNone(s.Tokens[token_id]) THEN Err(s, "TokenNotFound")
    ELSE LET token == Unwrap(s.Tokens[token_id])
             s1 == [s EXCEPT !.TokenIdsForAccount[token.owner] = remove_id(@, token.id)]
             s2 == [s1 EXCEPT !.Tokens[token.id] = None]
         IN  Ok(s2, 0)

unchecked_burn(s, token_id) ==
    IF IsNone(s.Tokens[token_id]) THEN Err(s, "TokenNotFound")
    ELSE LET token == Unwrap(s.Tokens[token_id])
             s1 == [s EXCEPT !.TokenIdsForAccount[token.owner] = remove_id(@, token.id)]
             s2 == [s1 EXCEPT !.Tokens[token.id] = None]
         IN  IF IsNone(s2.LaunchTokens[token.launch_id])
             THEN Err(s2, "Panic")
             ELSE Ok([s2 EXCEPT !.LaunchTokens[token.launch_id] =
                         Some(bump_destroyed_and_decrease_supply(Unwrap(@)))], 0)

\* Mutant: the creator of the launch token is not compared with the creator id.
ensure_launch_token_exists(s, creator_id, launch_token_id) ==
    IsSome(s.LaunchTokens[launch_token_id])

ensure_creator_owns_launch_token(s, creator_id, launch_token_id) ==
    /\ IsSome(s.LaunchTokens[launch_token_id])
    /\ Unwrap(s.LaunchTokens[launch_token_id]).creator = creator_id

\* Mutant: the owner of the token is not compared with the account.
ensure_token_exists(s, account, token_id) == IsSome(s.Tokens[token_id])

ensure_account_owns_token(s, account, token_id) ==
    /\ IsSome(s.Tokens[token_id])
    /\ Unwrap(s.Tokens[token_id]).owner = account

\* Option<AccountId>
get_launch_token_owner(s, launch_token_id) ==
    IF IsNone(s.LaunchTokens[launch_token_id]) THEN None
    ELSE LET creator == s.Creators[Unwrap(s.LaunchTokens[launch_token_id]).creator]
         IN  IF IsNone(creator) THEN None ELSE Unwrap(creator).owner

\* Option<Balance>
get_token_price(s, token_id) ==
    IF IsNone(s.Tokens[token_id]) THEN None ELSE Unwrap(s.Tokens[token_id]).price

(***************************************************************************)
(* lib.rs: the dispatchables.  account is the signed origin.                *)
(***************************************************************************)
create_account(s, account, creator_id) ==
    add_new_creator_to_account(s, creator_id, account)

drop_account(s, account, creator_id) ==
    remove_creator_from_account(s, creator_id, account)

mint(s, account, creator_id, price, supply) ==
    IF ~ensure_account_owns_creator(s, account, creator_id) THEN Err(s, "NotOwner")
    ELSE unchecked_mint(s, creator_id, price, supply)

launch_gift(s, account, creator_id, launch_token_id, receiver) ==
    IF ~ensure_account_owns_creator(s, account, creator_id) THEN Err(s, "NotOwner")
    ELSE IF ~ensure_creator_owns_launch_token(s, creator_id, launch_token_id)
    THEN Err(s, "NotOwner")
    ELSE unchecked_launch_transfer(s, receiver, launch_token_id)

\* Mutant: the bid is compared with the price before the owner is resolved.
launch_buy_checks_bid_first(s, account, launch_token_id, bid_price) ==
    IF ~(free_balance(s, account) >= bid_price) THEN Err(s, "InsufficientFunds")
    ELSE IF IsNone(s.LaunchTokens[launch_token_id]) THEN Err(s, "TokenNotFound")
    ELSE IF ~(bid_price >= Unwrap(s.LaunchTokens[launch_token_id]).price)
    THEN Err(s, "BidPriceTooLow")
    ELSE IF IsNone(get_launch_token_owner(s, launch_token_id))
    THEN Err(s, "TokenUnavailable")
    ELSE LET launch_token_owner == Unwrap(get_launch_token_owner(s, launch_token_id))
             r == unchecked_launch_transfer(s, account, launch_token_id)
         IN  IF r.res # "Ok" THEN r
             ELSE LET paid == Currency_transfer(r.st, account, launch_token_owner,
                                                bid_price)
                  IN  IF IsNone(paid) THEN Err(r.st, "Panic") ELSE Ok(Unwrap(paid), r.val)

launch_buy(s, account, launch_token_id, bid_price) ==
    IF ~(free_balance(s, account) >= bid_price) THEN Err(s, "InsufficientFunds")
    ELSE IF IsNone(s.LaunchTokens[launch_token_id]) THEN Err(s, "TokenNotFound")
    ELSE IF IsNone(get_launch_token_owner(s, launch_token_id))
    THEN Err(s, "TokenUnavailable")
    ELSE IF ~(bid_price >= Unwrap(s.LaunchTokens[launch_token_id]).price)
    THEN Err(s, "BidPriceTooLow")
    ELSE LET launch_token_owner == Unwrap(get_launch_token_owner(s, launch_token_id))
             r == unchecked_launch_transfer(s, account, launch_token_id)
         IN  IF r.res # "Ok" THEN r
             ELSE LET paid == Currency_transfer(r.st, account, launch_token_owner,
                                                bid_price)
                  IN  IF IsNone(paid) THEN Err(r.st, "Panic") ELSE Ok(Unwrap(paid), r.val)

\* Mutant: the seller is paid the listed price instead of the bid.
buy_pays_listed_price(s, account, token_id, bid_price) ==
    IF ~(free_balance(s, account) >= bid_price) THEN Err(s, "InsufficientFunds")
    ELSE IF IsNone(s.Tokens[token_id]) THEN Err(s, "TokenNotFound")
    ELSE LET token == Unwrap(s.Tokens[token_id])
         IN  IF IsNone(token.price) THEN Err(s, "TokenNotForSale")
             ELSE IF ~(bid_price >= Unwrap(token.price)) THEN Err(s, "BidPriceTooLow")
             ELSE LET r == unchecked_transfer(s, token.owner, account, token_id)
                  IN  IF r.res # "Ok" THEN r
                      ELSE LET paid == Currency_transfer(r.st, account, token.owner,
                                                         Unwrap(token.price))
                           IN  IF IsNone(paid) THEN Err(r.st, "Panic")
                               ELSE Ok(Unwrap(paid), 0)

\* Mutant: a sold token is taken off the market.
buy_unlists(s, account, token_id, bid_price) ==
    IF ~(free_balance(s, account) >= bid_price) THEN Err(s, "InsufficientFunds")
    ELSE IF IsNone(s.Tokens[token_id]) THEN Err(s, "TokenNotFound")
    ELSE LET token == Unwrap(s.Tokens[token_id])
         IN  IF IsNone(token.price) THEN Err(s, "TokenNotForSale")
             ELSE IF ~(bid_price >= Unwrap(token.price)) THEN Err(s, "BidPriceTooLow")
             ELSE LET r == unchecked_transfer(s, token.owner, account, token_id)
                  IN  IF r.res # "Ok" THEN r
                      ELSE LET paid == Currency_transfer(r.st, account, token.owner,
                                                         bid_price)
                           IN  IF IsNone(paid) THEN Err(r.st, "Panic")
                               ELSE Ok([Unwrap(paid) EXCEPT !.Tokens[token_id] =
                                            Some([Unwrap(@) EXCEPT !.price = None])], 0)

buy(s, account, token_id, bid_price) ==
    IF ~(free_balance(s, account) >= bid_price) THEN Err(s, "InsufficientFunds")
    ELSE IF IsNone(s.Tokens[token_id]) THEN Err(s, "TokenNotFound")
    ELSE LET token == Unwrap(s.Tokens[token_id])
         IN  IF IsNone(token.price) THEN Err(s, "TokenNotForSale")
             ELSE IF ~(bid_price >= Unwrap(token.price)) THEN Err(s, "BidPriceTooLow")
             ELSE LET r == unchecked_transfer(s, token.owner, account, token_id)
                  IN  IF r.res # "Ok" THEN r
                      ELSE LET paid == Currency_transfer(r.st, account, token.owner,
                                                         bid_price)
                           IN  IF IsNone(paid) THEN Err(r.st, "Panic")
                               ELSE Ok(Unwrap(paid), 0)

transfer(s, account, token_id) ==
    IF IsNone(s.Tokens[token_id]) THEN Err(s, "TokenNotFound")
    ELSE IF ~ensure_account_owns_token(s, account, token_id) THEN Err(s, "NotOwner")
    ELSE unchecked_transfer(s, account, account, token_id)

\* Mutant: list overwrites a price that is already there.
list_overwrites(s, account, token_id, price) ==
    IF ~ensure_account_owns_token(s, account, token_id) THEN Err(s, "NotOwner")
    ELSE unchecked_set_price(s, token_id, Some(price))

list(s, account, token_id, price) ==
    IF ~ensure_account_owns_token(s, account, token_id) THEN Err(s, "NotOwner")
    ELSE IF ~IsNone(get_token_price(s, token_id)) THEN Err(s, "TokenAlreadyListed")
    ELSE unchecked_set_price(s, token_id, Some(price))

unlist(s, account, token_id) ==
    IF ~ensure_account_owns_token(s, account, token_id) THEN Err(s, "NotOwner")
    ELSE IF ~IsSome(get_token_price(s, token_id)) THEN Err(s, "TokenNotListed")
    ELSE unchecked_set_price(s, token_id, None)

set_launch_price(s, account, creator_id, launch_token_id, price) ==
    IF ~ensure_account_owns_creator(s, account, creator_id) THEN Err(s, "NotOwner")
    ELSE IF ~ensure_creator_owns_launch_token(s, creator_id, launch_token_id)
    THEN Err(s, "NotOwner")
    ELSE unchecked_set_launch_price(s, launch_token_id, price)

set_price(s, account, token_id, price) ==
    IF ~ensure_account_owns_token(s, account, token_id) THEN Err(s, "NotOwner")
    ELSE IF ~IsSome(get_token_price(s, token_id)) THEN Err(s, "TokenNotListed")
    ELSE unchecked_set_price(s, token_id, Some(price))

burn(s, account, token_id) ==
    IF ~ensure_account_owns_token(s, account, token_id) THEN Err(s, "NotOwner")
    ELSE unchecked_burn(s, token_id)

(***************************************************************************)
(* State.                                                                   *)
(***************************************************************************)
VARIABLES
    Creators,                 \* StorageMap CreatorId -> Option<Creator>
    CreatorIdsForAccount,     \* StorageMap AccountId -> BoundedVec<CreatorId>
    LaunchTokens,             \* StorageMap TokenId -> Option<LaunchToken>
    LaunchTokenIdsForCreator, \* StorageMap CreatorId -> BoundedVec<TokenId>
    Tokens,                   \* StorageMap TokenId -> Option<Token>
    TokenIdsForAccount,       \* StorageMap AccountId -> BoundedVec<TokenId>
    LaunchIssuanceNonce,      \* StorageValue TokenId
    IssuanceNonce,            \* StorageValue TokenId
    Balances,                 \* free balance of every account
    universe,                 \* the run: its Config::MaxTokens and inputs (never changes)
    mintedIds,                \* history: ids the successful mint calls returned, in order
    mintedSupply,             \* history: supply each launch token was minted with
    everIssued,               \* history: successful issuances per launch token
    burnt                     \* history: token ids burned so far

storage == <<Creators, CreatorIdsForAccount, LaunchTokens, LaunchTokenIdsForCreator,
             Tokens, TokenIdsForAccount, LaunchIssuanceNonce, IssuanceNonce, Balances>>
history == <<mintedIds, mintedSupply, everIssued, burnt>>
vars == <<storage, history, universe>>

\* The storage as the record the calls work on, with the runtime's
\* T::MaxTokens::get().
Storage ==
    [Creators |-> Creators, CreatorIdsForAccount |-> CreatorIdsForAccount,
     LaunchTokens |-> LaunchTokens, LaunchTokenIdsForCreator |-> LaunchTokenIdsForCreator,
     Tokens |-> Tokens, TokenIdsForAccount |-> TokenIdsForAccount,
     LaunchIssuanceNonce |-> LaunchIssuanceNonce, IssuanceNonce |-> IssuanceNonce,
     Balances |-> Balances, MaxTokens |-> universe.MaxTokens]

\* Genesis: every map empty (OptionQuery / ValueQuery defaults), both nonces 0.
Init ==
    /\ universe \in Universes
    /\ Creators = [c \in CreatorIds |-> None]
    /\ CreatorIdsForAccount = [a \in Accounts |-> <<>>]
    /\ LaunchTokens = [t \in TokenIds |-> None]
    /\ LaunchTokenIdsForCreator = [c \in CreatorIds |-> <<>>]
    /\ Tokens = [t \in TokenIds |-> None]
    /\ TokenIdsForAccount = [a \in Accounts |-> <<>>]
    /\ LaunchIssuanceNonce = 0
    /\ IssuanceNonce = 0
    /\ Balances = universe.balances
    /\ mintedIds = <<>>
    /\ mintedSupply = [t \in TokenIds |-> 0]
    /\ everIssued = [t \in TokenIds |-> 0]
    /\ burnt = {}

\* What a call leaves behind.  A call that returns (Ok or an Error) leaves its
\* writes; a call that panics aborts the extrinsic and the host discards it.
Dispatch(r) ==
    LET out == r
    IN  IF out.res = "Panic"
        THEN UNCHANGED storage
        ELSE /\ Creators' = out.st.Creators
             /\ CreatorIdsForAccount' = out.st.CreatorIdsForAccount
             /\ LaunchTokens' = out.st.LaunchTokens
             /\ LaunchTokenIdsForCreator' = out.st.LaunchTokenIdsForCreator
             /\ Tokens' = out.st.Tokens
             /\ TokenIdsForAccount' = out.st.TokenIdsForAccount
             /\ LaunchIssuanceNonce' = out.st.LaunchIssuanceNonce
             /\ IssuanceNonce' = out.st.IssuanceNonce
             /\ Balances' = out.st.Balances

CreateAccount ==
    \E account \in Accounts, creator_id \in CreatorIds :
        /\ Dispatch(create_account(Storage, account, creator_id))
        /\ UNCHANGED <<history, universe>>

DropAccount ==
    \E account \in Accounts, creator_id \in CreatorIds :
        /\ Dispatch(drop_account(Storage, account, creator_id))
        /\ UNCHANGED <<history, universe>>

Mint ==
    \E account \in Accounts, creator_id \in CreatorIds, price \in universe.prices,
       supply \in universe.supplies :
        LET r == mint(Storage, account, creator_id, price, supply)
        IN  /\ Dispatch(r)
            /\ mintedIds' = IF r.res = "Ok" THEN Append(mintedIds, r.val) ELSE mintedIds
            /\ mintedSupply' = IF r.res = "Ok"
                               THEN [mintedSupply EXCEPT ![r.val] = supply]
                               ELSE mintedSupply
            /\ UNCHANGED <<everIssued, burnt, universe>>

LaunchGift ==
    \E account \in Accounts, creator_id \in CreatorIds, launch_token_id \in TokenIds,
       receiver \in Accounts :
        LET r == launch_gift(Storage, account, creator_id, launch_token_id, receiver)
        IN  /\ Dispatch(r)
            /\ everIssued' = IF r.res = "Ok"
                             THEN [everIssued EXCEPT ![launch_token_id] = @ + 1]
                             ELSE everIssued
            /\ UNCHANGED <<mintedIds, mintedSupply, burnt, universe>>

LaunchBuy ==
    \E account \in Accounts, launch_token_id \in TokenIds, bid_price \in Prices :
        LET r == launch_buy(Storage, account, launch_token_id, bid_price)
        IN  /\ Dispatch(r)
            /\ everIssued' = IF r.res = "Ok"
                             THEN [everIssued EXCEPT ![launch_token_id] = @ + 1]
                             ELSE everIssued
            /\ UNCHANGED <<mintedIds, mintedSupply, burnt, universe>>

Buy ==
    \E account \in Accounts, token_id \in TokenIds, bid_price \in Prices :
        /\ Dispatch(buy(Storage, account, token_id, bid_price))
        /\ UNCHANGED <<history, universe>>

Transfer ==
    \E account \in Accounts, token_id \in TokenIds :
        /\ Dispatch(transfer(Storage, account, token_id))
        /\ UNCHANGED <<history, universe>>

List ==
    \E account \in Accounts, token_id \in TokenIds, price \in universe.prices :
        /\ Dispatch(list(Storage, account, token_id, price))
        /\ UNCHANGED <<history, universe>>

Unlist ==
    \E account \in Accounts, token_id \in TokenIds :
        /\ Dispatch(unlist(Storage, account, token_id))
        /\ UNCHANGED <<history, universe>>

SetLaunchPrice ==
    \E account \in Accounts, creator_id \in CreatorIds, launch_token_id \in TokenIds,
       price \in universe.prices :
        /\ Dispatch(set_launch_price(Storage, account, creator_id, launch_token_id, price))
        /\ UNCHANGED <<history, universe>>

SetPrice ==
    \E account \in Accounts, token_id \in TokenIds, price \in universe.prices :
        /\ Dispatch(set_price(Storage, account, token_id, price))
        /\ UNCHANGED <<history, universe>>

Burn ==
    \E account \in Accounts, token_id \in TokenIds :
        LET r == burn(Storage, account, token_id)
        IN  /\ Dispatch(r)
            /\ burnt' = IF r.res = "Ok" THEN burnt \cup {token_id} ELSE burnt
            /\ UNCHANGED <<mintedIds, mintedSupply, everIssued, universe>>

Next ==
    \/ CreateAccount
    \/ DropAccount
    \/ Mint
    \/ LaunchGift
    \/ LaunchBuy
    \/ Buy
    \/ Transfer
    \/ List
    \/ Unlist
    \/ SetLaunchPrice
    \/ SetPrice
    \/ Burn

Spec == Init /\ [][Next]_vars

(***************************************************************************)
(* Helpers of the properties.                                               *)
(***************************************************************************)
\* Every supply a mint call of some run passes.
Supplies == UNION {u.supplies : u \in Universes}

LiveLaunchIds == {t \in TokenIds : IsSome(LaunchTokens[t])}
LiveTokenIds == {t \in TokenIds : IsSome(Tokens[t])}
LaunchTokenOf(t) == Unwrap(LaunchTokens[t])
TokenOf(t) == Unwrap(Tokens[t])

(***************************************************************************)
(* C1: in every reachable state every launch token satisfies               *)
(* issued <= supply + destroyed.                                            *)
(***************************************************************************)
C1_SupplyInvariant ==
    \A t \in LiveLaunchIds :
        LaunchTokenOf(t).issued <= LaunchTokenOf(t).supply + LaunchTokenOf(t).destroyed

\* A launch token that is sold out after one of its tokens was burned.
C1_Witness ==
    \E t \in LiveLaunchIds :
        /\ LaunchTokenOf(t).destroyed >= 1
        /\ LaunchTokenOf(t).issued = LaunchTokenOf(t).supply + LaunchTokenOf(t).destroyed

(***************************************************************************)
(* C2: the token table and the per-account token index are in lock-step:   *)
(* token id t occurs in TokenIdsForAccount[a] iff Tokens[t] exists and is   *)
(* owned by a, and no index holds an id twice.                              *)
(***************************************************************************)
C2_TokenIndexLockStep ==
    /\ \A a \in Accounts, t \in TokenIds :
           t \in Range(TokenIdsForAccount[a]) <=> (IsSome(Tokens[t]) /\ TokenOf(t).owner = a)
    /\ \A a \in Accounts : NoDuplicates(TokenIdsForAccount[a])

\* An account holds two tokens and got the older one after the newer one, so
\* a token has moved from one index to the other.
C2_Witness == \E a \in Accounts : TokenIdsForAccount[a] = <<2, 1>>

C4_NoDanglingCreator ==
    /\ \A t \in LiveLaunchIds : IsSome(Creators[LaunchTokenOf(t).creator])
    /\ \A t \in LiveTokenIds : IsSome(Creators[TokenOf(t).creator])

\* The owner of a creator with a launch token and an issued token dropped it, and
\* create_account of the same id is refused.
C4_Witness ==
    \E c \in CreatorIds, t \in LiveTokenIds :
        /\ TokenOf(t).creator = c
        /\ IsSome(Creators[c]) /\ Unwrap(Creators[c]).owner = None
        /\ \A a \in Accounts : create_account(Storage, a, c).res = "CreatorAccountTaken"

(***************************************************************************)
(* C5: the ids returned by successful mint calls are strictly increasing   *)
(* over the whole history and never reused, whatever failed mint calls lie  *)
(* between them: a successful mint returns LaunchIssuanceNonce + 1, makes   *)
(* it the new nonce, and that id was not a key of LaunchTokens and is       *)
(* larger than every id returned before.                                    *)
(***************************************************************************)
C5_MintIdsIncrease ==
    [][mintedIds' # mintedIds =>
          LET id == mintedIds'[Len(mintedIds')]
          IN  /\ mintedIds' = Append(mintedIds, id)
              /\ id = LaunchIssuanceNonce + 1
              /\ LaunchIssuanceNonce' = id
              /\ IsNone(LaunchTokens[id])
              /\ IsSome(LaunchTokens'[id])
              /\ Unwrap(LaunchTokens'[id]).id = id
              /\ \A i \in 1..Len(mintedIds) : mintedIds[i] < id]_vars

\* Two mints have succeeded, and in this state mint calls fail in each of the
\* three ways (the caller owns no such creator, the creator's index is full, or
\* the nonce is at its maximum).
C5_Witness ==
    /\ Len(mintedIds) = 2
    /\ \E a \in Accounts, c \in CreatorIds :
           mint(Storage, a, c, 1, 1).res = "NotOwner"
    /\ \E a \in Accounts, c \in CreatorIds :
           mint(Storage, a, c, 1, 1).res \in {"MaxLaunchTokensReached", "LaunchTokensOverflow"}

(***************************************************************************)
(* C6: a mint call that fails with MaxLaunchTokensReached leaves            *)
(* LaunchIssuanceNonce, LaunchTokens and LaunchTokenIdsForCreator as they   *)
(* were.                                                                    *)
(***************************************************************************)
C6_MintCapacityFailureIsAtomic ==
    \A a \in Accounts, c \in CreatorIds, p \in Prices, n \in Supplies :
        LET r == mint(Storage, a, c, p, n)
        IN  r.res = "MaxLaunchTokensReached" =>
                /\ r.st.LaunchIssuanceNonce = LaunchIssuanceNonce
                /\ r.st.LaunchTokens = LaunchTokens
                /\ r.st.LaunchTokenIdsForCreator = LaunchTokenIdsForCreator

\* The owner of a creator whose index is full calls mint while the nonce can
\* still grow.
C6_Witness ==
    \E a \in Accounts, c \in CreatorIds :
        /\ mint(Storage, a, c, 1, 1).res = "MaxLaunchTokensReached"
        /\ Len(LaunchTokenIdsForCreator[c]) = MaxLaunchTokens
        /\ LaunchIssuanceNonce < TokenIdMax

(***************************************************************************)
(* C7: every call of every dispatchable that returns an Error leaves the    *)
(* eight storage items and the balances as they were, by the order of its   *)
(* own checks and writes.                                                   *)
(***************************************************************************)
\* r is no error value, or it returns the storage it was given.
ErrorChangesNothing(r) ==
    LET out == r IN  out.res \notin {"Ok", "Panic"} => out.st = Storage

C7_ErrorsChangeNothing ==
    /\ \A a \in Accounts, c \in CreatorIds :
           /\ ErrorChangesNothing(create_account(Storage, a, c))
           /\ ErrorChangesNothing(drop_account(Storage, a, c))
           /\ \A p \in Prices, n \in Supplies :
                  ErrorChangesNothing(mint(Storage, a, c, p, n))
           /\ \A t \in TokenIds :
                  /\ \A b \in Accounts :
                         ErrorChangesNothing(launch_gift(Storage, a, c, t, b))
                  /\ \A p \in Prices :
                         ErrorChangesNothing(set_launch_price(Storage, a, c, t, p))
    /\ \A a \in Accounts, t \in TokenIds :
           /\ ErrorChangesNothing(transfer(Storage, a, t))
           /\ ErrorChangesNothing(unlist(Storage, a, t))
           /\ ErrorChangesNothing(burn(Storage, a, t))
           /\ \A p \in Prices :
                  /\ ErrorChangesNothing(launch_buy(Storage, a, t, p))
                  /\ ErrorChangesNothing(buy(Storage, a, t, p))
                  /\ ErrorChangesNothing(list(Storage, a, t, p))
                  /\ ErrorChangesNothing(set_price(Storage, a, t, p))

\* An account whose token index is full bids for another account's listed
\* token: the call passes every check of buy and fails inside unchecked_transfer.
C7_Witness ==
    \E a \in Accounts, t \in LiveTokenIds, p \in Prices :
        /\ TokenOf(t).owner # a
        /\ buy(Storage, a, t, p).res = "MaxTokensReached"

(***************************************************************************)
(* C8: no index ever exceeds its limit, and create_account by an account    *)
(* whose creator index is full fails and leaves that index and Creators     *)
(* unchanged: with MaxCreatorAccountsReached when the creator id is not     *)
(* registered, with CreatorAccountTaken when it is.                         *)
(***************************************************************************)
IndicesWithinLimits ==
    /\ \A a \in Accounts : Len(CreatorIdsForAccount[a]) <= MaxCreatorAccounts
    /\ \A c \in CreatorIds : Len(LaunchTokenIdsForCreator[c]) <= MaxLaunchTokens
    /\ \A a \in Accounts : Len(TokenIdsForAccount[a]) <= universe.MaxTokens

C8_CapacityEnforced ==
    /\ IndicesWithinLimits
    /\ \A a \in Accounts, c \in CreatorIds :
           Len(CreatorIdsForAccount[a]) >= MaxCreatorAccounts =>
               LET r == create_account(Storage, a, c)
               IN  /\ r.res = IF IsNone(Creators[c]) THEN "MaxCreatorAccountsReached"
                              ELSE "CreatorAccountTaken"
                   /\ r.st.CreatorIdsForAccount = CreatorIdsForAccount
                   /\ r.st.Creators = Creators

\* An account with a full creator index asks for an id nobody has registered.
C8_Witness ==
    \E a \in Accounts, c \in CreatorIds :
        /\ Len(CreatorIdsForAccount[a]) = MaxCreatorAccounts
        /\ IsNone(Creators[c])
        /\ create_account(Storage, a, c).res = "MaxCreatorAccountsReached"

\* The claim as stated: with a full index create_account always fails with
\* MaxCreatorAccountsReached.
C8_AsStated ==
    /\ IndicesWithinLimits
    /\ \A a \in Accounts, c \in CreatorIds :
           Len(CreatorIdsForAccount[a]) >= MaxCreatorAccounts =>
               LET r == create_account(Storage, a, c)
               IN  /\ r.res = "MaxCreatorAccountsReached"
                   /\ r.st.CreatorIdsForAccount = CreatorIdsForAccount
                   /\ r.st.Creators = Creators

(***************************************************************************)
(* C9: a successful burn(token_id) by the token's owner deletes             *)
(* Tokens[token_id], removes the id from the owner's index, decreases the   *)
(* supply of the token's launch token by exactly 1 and increases its        *)
(* destroyed by exactly 1, and leaves that launch token's issued and price, *)
(* every other launch token and every other token unchanged.                *)
(***************************************************************************)
C9_BurnEffect ==
    \A a \in Accounts, t \in TokenIds :
        LET r == burn(Storage, a, t)
        IN  r.res = "Ok" =>
                LET l == TokenOf(t).launch_id
                    before == LaunchTokenOf(l)
                    after == Unwrap(r.st.LaunchTokens[l])
                IN  /\ TokenOf(t).owner = a
                    /\ IsNone(r.st.Tokens[t])
                    /\ Range(r.st.TokenIdsForAccount[a]) = Range(TokenIdsForAccount[a]) \ {t}
                    /\ Len(r.st.TokenIdsForAccount[a]) = Len(TokenIdsForAccount[a]) - 1
                    /\ after.supply = before.supply - 1
                    /\ after.destroyed = before.destroyed + 1
                    /\ after = [before EXCEPT !.supply = after.supply,
                                              !.destroyed = after.destroyed]
                    /\ \A u \in TokenIds \ {l} : r.st.LaunchTokens[u] = LaunchTokens[u]
                    /\ \A u \in TokenIds \ {t} : r.st.Tokens[u] = Tokens[u]
                    /\ \A b \in Accounts \ {a} :
                           r.st.TokenIdsForAccount[b] = TokenIdsForAccount[b]

\* A token has been burned and its owner held another token beside it.
C9_Witness ==
    /\ burnt # {}
    /\ \E t \in burnt : IsNone(Tokens[t])
    /\ \E a \in Accounts, t \in LiveTokenIds : burn(Storage, a, t).res = "Ok"

(***************************************************************************)
(* C10: destruction frees no capacity.  The number of tokens ever issued    *)
(* from a launch token (by launch_gift and launch_buy) never exceeds the    *)
(* supply it was minted with, however many were burned; a launch token with *)
(* issued = total_supply() stays so for ever, and every issuance from it    *)
(* fails: no launch_gift or launch_buy succeeds, and                        *)
(* unchecked_launch_transfer returns TokenSoldOut (TokensOverflow once the  *)
(* token id counter itself is exhausted, which is checked first).           *)
(***************************************************************************)
SoldOut(t) ==
    /\ IsSome(LaunchTokens[t])
    /\ LaunchTokenOf(t).issued >= total_supply(LaunchTokenOf(t))

C10_IssuedWithinMintedSupply ==
    \A t \in TokenIds :
        /\ everIssued[t] <= mintedSupply[t]
        /\ SoldOut(t) =>
               /\ \A b \in Accounts :
                      unchecked_launch_transfer(Storage, b, t).res =
                          IF IssuanceNonce >= TokenIdMax THEN "TokensOverflow"
                          ELSE "TokenSoldOut"
               /\ \A a \in Accounts, c \in CreatorIds, b \in Accounts :
                      launch_gift(Storage, a, c, t, b).res # "Ok"
               /\ \A a \in Accounts, p \in Prices : launch_buy(Storage, a, t, p).res # "Ok"

C10_NoCapacityFreed ==
    /\ []C10_IssuedWithinMintedSupply
    /\ [][\A t \in TokenIds : SoldOut(t) => SoldOut(t)']_vars

\* A launch token minted with a positive supply is sold out, one of its tokens
\* has been burned, and the token id counter can still grow.
C10_Witness ==
    \E t \in LiveLaunchIds :
        /\ SoldOut(t)
        /\ mintedSupply[t] >= 1
        /\ everIssued[t] = mintedSupply[t]
        /\ LaunchTokenOf(t).destroyed >= 1
        /\ IssuanceNonce < TokenIdMax

\* The claim as stated: every issuance from a sold out launch token fails with
\* TokenSoldOut, whatever the token id counter.
C10_AsStated ==
    \A t \in TokenIds :
        /\ everIssued[t] <= mintedSupply[t]
        /\ SoldOut(t) =>
               \A b \in Accounts :
                   unchecked_launch_transfer(Storage, b, t).res = "TokenSoldOut"

(***************************************************************************)
(* C11: listing round trip for a token owned by the caller.  After a       *)
(* successful list(t, p) the price of t is Some(p); after a successful      *)
(* unlist(t) it is None; list on a token whose price is Some fails with     *)
(* TokenAlreadyListed, unlist and set_price on a token whose price is None  *)
(* fail with TokenNotListed, and each failure leaves the price (and all     *)
(* storage) unchanged.                                                      *)
(***************************************************************************)
C11_ListingRoundTrip ==
    \A a \in Accounts, t \in LiveTokenIds :
        TokenOf(t).owner = a =>
            /\ \A p \in Prices :
                   LET r == list(Storage, a, t, p)
                   IN  IF IsNone(TokenOf(t).price)
                       THEN /\ r.res = "Ok"
                            /\ get_token_price(r.st, t) = Some(p)
                            /\ unlist(r.st, a, t).res = "Ok"
                            /\ get_token_price(unlist(r.st, a, t).st, t) = None
                            /\ list(r.st, a, t, p).res = "TokenAlreadyListed"
                       ELSE /\ r.res = "TokenAlreadyListed"
                            /\ r.st = Storage
            /\ LET u == unlist(Storage, a, t)
               IN  IF IsSome(TokenOf(t).price)
                   THEN u.res = "Ok" /\ get_token_price(u.st, t) = None
                   ELSE u.res = "TokenNotListed" /\ u.st = Storage
            /\ IsNone(TokenOf(t).price) =>
                   \A p \in Prices :
                       /\ set_price(Storage, a, t, p).res = "TokenNotListed"
                       /\ set_price(Storage, a, t, p).st = Storage

\* One token is listed (a list call has succeeded) while another was never listed
\* or has been unlisted.
C11_Witness ==
    \E t, u \in LiveTokenIds :
        /\ IsSome(TokenOf(t).price)
        /\ IsNone(TokenOf(u).price)

C13_SettlementGuaranteed ==
    \A b \in Accounts, t \in TokenIds, bid \in Prices :
        /\ buy(Storage, b, t, bid).res # "Panic"
        /\ launch_buy(Storage, b, t, bid).res # "Panic"

(***************************************************************************)
(* C14: launch_buy(launch_token_id, bid) on an existing launch token whose  *)
(* creator has been disconnected issues no token and fails, with            *)
(* TokenUnavailable when the buyer's free balance covers the bid and with   *)
(* InsufficientFunds when it does not (the balance is checked first).  A    *)
(* launch_buy succeeds only when the creator is still owned, bid >= price   *)
(* and the launch token is not sold out, and a successful one issues        *)
(* exactly one new token to the buyer, with price None, and moves bid from  *)
(* the buyer to the account that currently owns the launch token's creator. *)
(***************************************************************************)
C14_LaunchBuyEffect ==
    \A b \in Accounts, t \in LiveLaunchIds, bid \in Prices :
        LET r == launch_buy(Storage, b, t, bid)
            lt == LaunchTokenOf(t)
            owner == get_launch_token_owner(Storage, t)
            n == IssuanceNonce + 1
        IN  /\ IsNone(owner) =>
                   /\ r.res = IF free_balance(Storage, b) >= bid THEN "TokenUnavailable"
                              ELSE "InsufficientFunds"
                   /\ r.st = Storage
            /\ r.res = "Ok" =>
                   /\ IsSome(owner)
                   /\ Unwrap(Creators[lt.creator]).owner = owner
                   /\ bid >= lt.price
                   /\ lt.issued < total_supply(lt)
                   /\ r.val = n
                   /\ IsNone(Tokens[n])
                   /\ r.st.Tokens[n] = Some([id |-> n, launch_id |-> t,
                                             creator |-> lt.creator, owner |-> b,
                                             price |-> None])
                   /\ \A u \in TokenIds \ {n} : r.st.Tokens[u] = Tokens[u]
                   /\ r.st.TokenIdsForAccount =
                          [TokenIdsForAccount EXCEPT ![b] = Append(@, n)]
                   /\ r.st.IssuanceNonce = n
                   /\ r.st.Balances = [Balances EXCEPT ![b] = @ - bid,
                                                       ![Unwrap(owner)] = @ + bid]

\* A launch token whose creator has been disconnected after a purchase moved
\* funds, and a buyer who can cover the bid.
C14_Witness ==
    /\ Balances # universe.balances
    /\ \E b \in Accounts, t \in LiveLaunchIds, bid \in Prices :
           /\ IsSome(Creators[LaunchTokenOf(t).creator])
           /\ IsNone(get_launch_token_owner(Storage, t))
           /\ everIssued[t] >= 1
           /\ launch_buy(Storage, b, t, bid).res = "TokenUnavailable"

\* The claim as stated: a disconnected creator always gives TokenUnavailable, and
\* an owned creator, a sufficient bid and remaining supply always give a token.
\* The calls that panic in the settlement (C13) are left aside.
C14_AsStated ==
    \A b \in Accounts, t \in LiveLaunchIds, bid \in Prices :
        LET r == launch_buy(Storage, b, t, bid)
            lt == LaunchTokenOf(t)
            owner == get_launch_token_owner(Storage, t)
            n == IssuanceNonce + 1
        IN  /\ IsNone(owner) =>
                   /\ r.res = "TokenUnavailable"
                   /\ r.st.Tokens = Tokens
                   /\ r.st.IssuanceNonce = IssuanceNonce
            /\ (IsSome(owner) /\ bid >= lt.price /\ lt.issued < total_supply(lt)
                   /\ r.res # "Panic") =>
                   /\ r.res = "Ok"
                   /\ r.st.Tokens[n] = Some([id |-> n, launch_id |-> t,
                                             creator |-> lt.creator, owner |-> b,
                                             price |-> None])
                   /\ \A u \in TokenIds \ {n} : r.st.Tokens[u] = Tokens[u]
                   /\ r.st.Balances = [Balances EXCEPT ![b] = @ - bid,
                                                       ![Unwrap(owner)] = @ + bid]

(***************************************************************************)
(* C15: drop_account(id) by the creator's owner removes Creators[id] when   *)
(* no launch token references id (the owner lookup then yields None and the *)
(* id can be registered again) and otherwise keeps the record with owner    *)
(* None; in both cases id leaves the caller's creator index.  Called by an  *)
(* account that does not own id (also for an id that does not exist) it     *)
(* fails with NotOwner and changes nothing.                                 *)
(***************************************************************************)
C15_DropAccountEffect ==
    \A a \in Accounts, c \in CreatorIds :
        LET r == drop_account(Storage, a, c)
            owns == IsSome(Creators[c]) /\ Unwrap(Creators[c]).owner = Some(a)
            referenced == \E t \in LiveLaunchIds : LaunchTokenOf(t).creator = c
        IN  IF owns
            THEN /\ r.res = "Ok"
                 /\ IF referenced
                    THEN r.st.Creators[c] = Some([id |-> c, owner |-> None])
                    ELSE /\ r.st.Creators[c] = None
                         /\ create_account(r.st, a, c).res = "Ok"
                 /\ c \in Range(CreatorIdsForAccount[a])
                 /\ c \notin Range(r.st.CreatorIdsForAccount[a])
                 /\ Range(r.st.CreatorIdsForAccount[a]) = Range(CreatorIdsForAccount[a]) \ {c}
                 /\ \A d \in CreatorIds \ {c} : r.st.Creators[d] = Creators[d]
                 /\ \A b \in Accounts \ {a} :
                        r.st.CreatorIdsForAccount[b] = CreatorIdsForAccount[b]
                 /\ r.st.LaunchTokens = LaunchTokens
                 /\ r.st.LaunchTokenIdsForCreator = LaunchTokenIdsForCreator
                 /\ r.st.Tokens = Tokens
                 /\ r.st.TokenIdsForAccount = TokenIdsForAccount
            ELSE /\ r.res = "NotOwner"
                 /\ r.st = Storage

\* One creator has been disconnected by a drop_account, another is owned and has
\* no launch token, and an id is unregistered.
C15_Witness ==
    /\ \E c \in CreatorIds : IsSome(Creators[c]) /\ Unwrap(Creators[c]).owner = None
    /\ \E c \in CreatorIds :
           /\ IsSome(Creators[c])
           /\ IsSome(Unwrap(Creators[c]).owner)
           /\ LaunchTokenIdsForCreator[c] = <<>>

(***************************************************************************)
(* C16: only a token's current owner can change or destroy it.  A step that *)
(* changes the price of Tokens[t] or deletes Tokens[t] is a list, unlist,   *)
(* set_price or burn call made by the account that owns t at that moment;   *)
(* the same calls made by any other account fail with NotOwner; the only    *)
(* call by another account that changes a token record is a successful      *)
(* buy, which changes its owner and nothing else of it.                     *)
(***************************************************************************)
C16_OthersGetNotOwner ==
    \A a \in Accounts, t \in TokenIds :
        (IsNone(Tokens[t]) \/ TokenOf(t).owner # a) =>
            /\ \A p \in Prices :
                   /\ list(Storage, a, t, p).res = "NotOwner"
                   /\ set_price(Storage, a, t, p).res = "NotOwner"
            /\ unlist(Storage, a, t).res = "NotOwner"
            /\ burn(Storage, a, t).res = "NotOwner"

C16_StepByOwner ==
    \A t \in TokenIds :
        (IsSome(Tokens[t]) /\ Tokens'[t] # Tokens[t]) =>
            LET o == TokenOf(t).owner
            IN  \/ \E p \in Prices :
                       /\ list(Storage, o, t, p).res = "Ok"
                       /\ list(Storage, o, t, p).st = Storage'
                \/ \E p \in Prices :
                       /\ set_price(Storage, o, t, p).res = "Ok"
                       /\ set_price(Storage, o, t, p).st = Storage'
                \/ /\ unlist(Storage, o, t).res = "Ok"
                   /\ unlist(Storage, o, t).st = Storage'
                \/ /\ burn(Storage, o, t).res = "Ok"
                   /\ burn(Storage, o, t).st = Storage'
                \/ /\ Tokens'[t] = Some([TokenOf(t) EXCEPT !.owner = Unwrap(Tokens'[t]).owner])
                   /\ \E b \in Accounts \ {o}, bid \in Prices :
                          /\ buy(Storage, b, t, bid).res = "Ok"
                          /\ buy(Storage, b, t, bid).st = Storage'
                          /\ Unwrap(Tokens'[t]).owner = b

C16_OnlyOwnerChangesToken ==
    /\ []C16_OthersGetNotOwner
    /\ [][C16_StepByOwner]_vars

\* A token has been burned by its owner, and another token is listed while an
\* account that does not own it calls unlist on it.
C16_Witness ==
    /\ burnt # {}
    /\ \E t \in LiveTokenIds, a \in Accounts :
           /\ IsSome(TokenOf(t).price)
           /\ TokenOf(t).owner # a
           /\ unlist(Storage, a, t).res = "NotOwner"

(***************************************************************************)
(* C17: only the account that currently owns a creator can act for it.      *)
(* mint(creator, ..) succeeds only if the caller owns creator; launch_gift  *)
(* and set_launch_price(creator, launch_token, ..) succeed only if the      *)
(* caller owns creator and the launch token's creator is creator.  Every    *)
(* other caller, and every call that names a creator that does not own the  *)
(* launch token or a launch token that does not exist, fails with NotOwner  *)
(* and changes no launch token, token, index or counter.                    *)
(***************************************************************************)
C17_OnlyCreatorOwnerActs ==
    \A a \in Accounts, c \in CreatorIds :
        LET owns == IsSome(Creators[c]) /\ Unwrap(Creators[c]).owner = Some(a)
        IN  /\ \A p \in Prices, supply \in Supplies :
                   LET r == mint(Storage, a, c, p, supply)
                   IN  /\ r.res = "Ok" => owns
                       /\ ~owns => (r.res = "NotOwner" /\ r.st = Storage)
            /\ \A t \in TokenIds :
                   LET entitled == /\ owns
                                   /\ IsSome(LaunchTokens[t])
                                   /\ LaunchTokenOf(t).creator = c
                   IN  /\ \A b \in Accounts :
                              LET r == launch_gift(Storage, a, c, t, b)
                              IN  /\ r.res = "Ok" => entitled
                                  /\ ~entitled => (r.res = "NotOwner" /\ r.st = Storage)
                       /\ \A p \in Prices :
                              LET r == set_launch_price(Storage, a, c, t, p)
                              IN  /\ r.res = "Ok" => entitled
                                  /\ ~entitled => (r.res = "NotOwner" /\ r.st = Storage)

\* A token has been issued, one creator has been disconnected from its launch
\* token's former owner, and an account that owns another creator names that
\* launch token.
C17_Witness ==
    /\ \E t \in TokenIds : everIssued[t] >= 1
    /\ \E c \in CreatorIds :
           /\ IsSome(Creators[c])
           /\ Unwrap(Creators[c]).owner = None
           /\ LaunchTokenIdsForCreator[c] # <<>>
    /\ \E a \in Accounts, c \in CreatorIds, t \in LiveLaunchIds :
           /\ IsSome(Creators[c])
           /\ Unwrap(Creators[c]).owner = Some(a)
           /\ LaunchTokenOf(t).creator # c
           /\ launch_gift(Storage, a, c, t, a).res = "NotOwner"

(***************************************************************************)
(* C18: burn is terminal and token ids are never reused.  Once burn(t) has  *)
(* succeeded Tokens[t] is absent in every later state and every later call  *)
(* on t fails; every token issued afterwards gets an id strictly greater    *)
(* than every id issued before: IssuanceNonce never decreases and each      *)
(* successful issuance uses IssuanceNonce + 1.                              *)
(***************************************************************************)
C18_BurntStaysBurnt ==
    /\ \A t \in LiveTokenIds \cup burnt : t <= IssuanceNonce
    /\ \A t \in burnt :
           /\ IsNone(Tokens[t])
           /\ \A a \in Accounts : t \notin Range(TokenIdsForAccount[a])
           /\ \A a \in Accounts :
                  /\ transfer(Storage, a, t).res \notin {"Ok", "Panic"}
                  /\ unlist(Storage, a, t).res \notin {"Ok", "Panic"}
                  /\ burn(Storage, a, t).res \notin {"Ok", "Panic"}
                  /\ \A p \in Prices :
                         /\ buy(Storage, a, t, p).res \notin {"Ok", "Panic"}
                         /\ list(Storage, a, t, p).res \notin {"Ok", "Panic"}
                         /\ set_price(Storage, a, t, p).res \notin {"Ok", "Panic"}

C18_IssuanceStep ==
    /\ IssuanceNonce' >= IssuanceNonce
    /\ burnt \subseteq burnt'
    /\ \A n \in TokenIds :
           (IsNone(Tokens[n]) /\ IsSome(Tokens'[n])) =>
               /\ n = IssuanceNonce + 1
               /\ IssuanceNonce' = n
               /\ \A t \in LiveTokenIds \cup burnt : n > t

C18_BurnIsTerminal ==
    /\ []C18_BurntStaysBurnt
    /\ [][C18_IssuanceStep]_vars

\* A token was issued after another one had been burned.
C18_Witness ==
    \E t \in burnt, u \in LiveTokenIds : u > t

(***************************************************************************)
(* C19: for every launch token, issued equals the number of successful      *)
(* issuances (launch_gift and launch_buy) made from it so far.  A           *)
(* successful issuance increases its issued by exactly 1 and creates        *)
(* exactly one token, whose launch_id is the launch token, whose owner is   *)
(* the receiver and whose price is None; no other call (burn, buy,          *)
(* transfer, list, drop_account, ..., nor a failed call) changes issued.    *)
(***************************************************************************)
\* The outcome r issued exactly one token from launch token t to receiver.
IssuedOne(r, t, receiver) ==
    LET n == IssuanceNonce + 1
    IN  /\ IsSome(LaunchTokens[t])
        /\ r.st.LaunchTokens =
               [LaunchTokens EXCEPT ![t] =
                    Some([LaunchTokenOf(t) EXCEPT !.issued = LaunchTokenOf(t).issued + 1])]
        /\ r.val = n
        /\ IsNone(Tokens[n])
        /\ r.st.Tokens =
               [Tokens EXCEPT ![n] =
                    Some([id |-> n, launch_id |-> t, creator |-> LaunchTokenOf(t).creator,
                          owner |-> receiver, price |-> None])]
        /\ r.st.TokenIdsForAccount = [TokenIdsForAccount EXCEPT ![receiver] = Append(@, n)]

\* everIssued counts the successful LaunchGift and LaunchBuy steps per launch
\* token and no other step; equality with issued in every reachable state means
\* that no other step moves issued.
C19_IssuedCountsIssuances ==
    /\ \A t \in TokenIds :
           everIssued[t] = IF IsSome(LaunchTokens[t]) THEN LaunchTokenOf(t).issued ELSE 0
    /\ \A a \in Accounts, c \in CreatorIds, t \in TokenIds, b \in Accounts :
           LET r == launch_gift(Storage, a, c, t, b)
           IN  IF r.res = "Ok" THEN IssuedOne(r, t, b)
               ELSE r.st.LaunchTokens = LaunchTokens
    /\ \A a \in Accounts, t \in TokenIds, p \in Prices :
           LET r == launch_buy(Storage, a, t, p)
           IN  IF r.res = "Ok" THEN IssuedOne(r, t, a)
               ELSE r.res # "Panic" => r.st.LaunchTokens = LaunchTokens

\* A launch token has issued two tokens, one by launch_gift or launch_buy to each
\* of two receivers or both to one, and one of them has since been burned.
C19_Witness ==
    \E t \in LiveLaunchIds :
        /\ everIssued[t] = 2
        /\ LaunchTokenOf(t).issued = 2
        /\ LaunchTokenOf(t).destroyed >= 1

C22_BurnKeepsCapacity ==
    /\ \A l \in LiveLaunchIds : total_supply(LaunchTokenOf(l)) = mintedSupply[l]
    /\ \A a \in Accounts, t \in TokenIds :
           LET r == burn(Storage, a, t)
           IN  r.res = "Ok" =>
                   LET l == TokenOf(t).launch_id
                       before == LaunchTokenOf(l)
                       after == Unwrap(r.st.LaunchTokens[l])
                   IN  /\ after.supply = before.supply - 1
                       /\ after.destroyed = before.destroyed + 1
                       /\ total_supply(after) = total_supply(before)
                       /\ after.issued = before.issued
                       /\ total_supply(after) - after.issued =
                              total_supply(before) - before.issued
                       /\ \A b \in Accounts :
                              unchecked_launch_transfer(r.st, b, l).res = "Ok" =>
                                  before.issued < total_supply(before)

\* A token can be burned while its launch token can still issue another one.
C22_Witness ==
    \E a \in Accounts, t \in LiveTokenIds :
        /\ burn(Storage, a, t).res = "Ok"
        /\ LaunchTokenOf(TokenOf(t).launch_id).issued <
               total_supply(LaunchTokenOf(TokenOf(t).launch_id))

\* The claim as stated: total_supply() is one smaller after each burn, and the
\* number of tokens that can still be issued is reduced by it.
C22_AsStated ==
    \A a \in Accounts, t \in TokenIds :
        LET r == burn(Storage, a, t)
        IN  r.res = "Ok" =>
                LET l == TokenOf(t).launch_id
                    before == LaunchTokenOf(l)
                    after == Unwrap(r.st.LaunchTokens[l])
                IN  /\ total_supply(after) = total_supply(before) - 1
                    /\ total_supply(after) - after.issued <
                           total_supply(before) - before.issued

(***************************************************************************)
(* C23: for every launch token T in every reachable state, the number of    *)
(* live tokens whose launch_id is T equals T.issued - T.destroyed and is at *)
(* most T.supply.  Hence T.supply >= 1 whenever a live token of T exists,   *)
(* the floor at zero of the saturating_sub in a burn is never exercised,    *)
(* and supply + destroyed always equals the supply T was minted with.       *)
(***************************************************************************)
LiveTokensOf(l) == {t \in LiveTokenIds : TokenOf(t).launch_id = l}

C23_LiveTokenCount ==
    /\ \A l \in LiveLaunchIds :
           LET lt == LaunchTokenOf(l)
               n == Cardinality(LiveTokensOf(l))
           IN  /\ n = lt.issued - lt.destroyed
               /\ n <= lt.supply
               /\ n >= 1 => lt.supply >= 1
               /\ lt.supply + lt.destroyed = mintedSupply[l]
    /\ \A t \in LiveTokenIds : TokenOf(t).launch_id \in LiveLaunchIds
    /\ \A a \in Accounts, t \in TokenIds :
           burn(Storage, a, t).res = "Ok" =>
               /\ LaunchTokenOf(TokenOf(t).launch_id).supply >= 1
               /\ Unwrap(burn(Storage, a, t).st.LaunchTokens[TokenOf(t).launch_id]).supply
                      = LaunchTokenOf(TokenOf(t).launch_id).supply - 1

\* A launch token with one token burned and another one live.
C23_Witness ==
    \E l \in LiveLaunchIds :
        /\ LaunchTokenOf(l).destroyed >= 1
        /\ LiveTokensOf(l) # {}

(***************************************************************************)
(* C24: a successful buy or transfer changes, of the token storage, only    *)
(* the token's owner and the two token indices (the funds of a buy move as  *)
(* C12 says).  The token's price is left as it was: after a successful buy  *)
(* the token is still listed at the seller's price under the new owner and  *)
(* can be bought from the new owner at that price without a call of list.   *)
(* Only issuance creates a token record, and it creates it with price None. *)
(***************************************************************************)
C24_BuyKeepsPrice ==
    \A b \in Accounts, t \in TokenIds :
        /\ \A bid \in Prices :
               LET r == buy(Storage, b, t, bid)
               IN  r.res = "Ok" =>
                       LET o == TokenOf(t).owner
                           p == Unwrap(TokenOf(t).price)
                       IN  /\ r.st.Tokens = [Tokens EXCEPT ![t] =
                                                 Some([TokenOf(t) EXCEPT !.owner = b])]
                           /\ get_token_price(r.st, t) = Some(p)
                           /\ \A c \in Accounts \ {o, b} :
                                  r.st.TokenIdsForAccount[c] = TokenIdsForAccount[c]
                           /\ r.st.Creators = Creators
                           /\ r.st.CreatorIdsForAccount = CreatorIdsForAccount
                           /\ r.st.LaunchTokens = LaunchTokens
                           /\ r.st.LaunchTokenIdsForCreator = LaunchTokenIdsForCreator
                           /\ r.st.LaunchIssuanceNonce = LaunchIssuanceNonce
                           /\ r.st.IssuanceNonce = IssuanceNonce
                           /\ \A c \in Accounts :
                                  free_balance(r.st, c) >= p =>
                                      buy(r.st, c, t, p).res \notin
                                          {"TokenNotFound", "TokenNotForSale",
                                           "BidPriceTooLow"}
                           /\ (b # o /\ free_balance(r.st, o) >= p + ExistentialDeposit) =>
                                  /\ buy(r.st, o, t, p).res = "Ok"
                                  /\ Unwrap(buy(r.st, o, t, p).st.Tokens[t]).owner = o
        /\ LET r == transfer(Storage, b, t)
           IN  r.res = "Ok" =>
                   /\ r.st.Tokens = Tokens
                   /\ get_token_price(r.st, t) = TokenOf(t).price

C24_TokenCreatedUnlisted ==
    \A n \in TokenIds :
        (IsNone(Tokens[n]) /\ IsSome(Tokens'[n])) =>
            /\ Unwrap(Tokens'[n]).price = None
            /\ \/ \E a \in Accounts, c \in CreatorIds, l \in TokenIds, b \in Accounts :
                      /\ launch_gift(Storage, a, c, l, b).res = "Ok"
                      /\ launch_gift(Storage, a, c, l, b).st = Storage'
               \/ \E a \in Accounts, l \in TokenIds, bid \in Prices :
                      /\ launch_buy(Storage, a, l, bid).res = "Ok"
                      /\ launch_buy(Storage, a, l, bid).st = Storage'

C24_PriceSurvivesSale ==
    /\ []C24_BuyKeepsPrice
    /\ [][C24_TokenCreatedUnlisted]_vars

\* After funds have moved, a listed token can be bought by an account other
\* than its owner.
C24_Witness ==
    /\ Balances # universe.balances
    /\ \E b \in Accounts, t \in LiveTokenIds, bid \in Prices :
           /\ TokenOf(t).owner # b
           /\ IsSome(TokenOf(t).price)
           /\ buy(Storage, b, t, bid).res = "Ok"

(***************************************************************************)
(* C25: disconnection is permanent.  Once drop_account has set a creator's  *)
(* owner to None, the creator record stays present with owner None in every *)
(* continuation: create_account of its id fails with CreatorAccountTaken    *)
(* for every account and no call restores an owner.  From then on no launch *)
(* token of that creator is minted, re-priced or issued from: the price and *)
(* issued of its launch tokens never change again, while the tokens already *)
(* issued can still be listed, bought, transferred and burned.              *)
(***************************************************************************)
Disconnected(c) == IsSome(Creators[c]) /\ Unwrap(Creators[c]).owner = None

C25_DisconnectedRefusesAll ==
    \A c \in CreatorIds :
        Disconnected(c) =>
            /\ \A a \in Accounts :
                   /\ create_account(Storage, a, c).res = "CreatorAccountTaken"
                   /\ drop_account(Storage, a, c).res = "NotOwner"
                   /\ \A p \in Prices, n \in Supplies :
                          mint(Storage, a, c, p, n).res = "NotOwner"
                   /\ \A l \in TokenIds :
                          /\ \A b \in Accounts :
                                 launch_gift(Storage, a, c, l, b).res = "NotOwner"
                          /\ \A p \in Prices :
                                 set_launch_price(Storage, a, c, l, p).res = "NotOwner"
            /\ \A l \in LiveLaunchIds :
                   LaunchTokenOf(l).creator = c =>
                       \A a \in Accounts, d \in CreatorIds, p \in Prices :
                           /\ launch_buy(Storage, a, l, p).res \in
                                  {"TokenUnavailable", "InsufficientFunds"}
                           /\ \A b \in Accounts :
                                  launch_gift(Storage, a, d, l, b).res = "NotOwner"
                           /\ set_launch_price(Storage, a, d, l, p).res = "NotOwner"
            /\ \A t \in LiveTokenIds :
                   TokenOf(t).creator = c =>
                       LET o == TokenOf(t).owner
                       IN  /\ burn(Storage, o, t).res = "Ok"
                           /\ IsNone(TokenOf(t).price) =>
                                  \A p \in Prices : list(Storage, o, t, p).res = "Ok"
                           /\ Len(TokenIdsForAccount[o]) < universe.MaxTokens =>
                                  transfer(Storage, o, t).res = "Ok"
                           /\ \A b \in Accounts \ {o}, bid \in Prices :
                                  (/\ IsSome(TokenOf(t).price)
                                   /\ bid >= Unwrap(TokenOf(t).price)
                                   /\ free_balance(Storage, b) >= bid + ExistentialDeposit
                                   /\ Len(TokenIdsForAccount[b]) < universe.MaxTokens) =>
                                      buy(Storage, b, t, bid).res = "Ok"

C25_DisconnectedStep ==
    \A c \in CreatorIds :
        Disconnected(c) =>
            /\ Creators'[c] = Creators[c]
            /\ LaunchTokenIdsForCreator'[c] = LaunchTokenIdsForCreator[c]
            /\ \A l \in TokenIds :
                   IF IsSome(LaunchTokens[l]) /\ LaunchTokenOf(l).creator = c
                   THEN /\ IsSome(LaunchTokens'[l])
                        /\ Unwrap(LaunchTokens'[l]).price = LaunchTokenOf(l).price
                        /\ Unwrap(LaunchTokens'[l]).issued = LaunchTokenOf(l).issued
                        /\ Unwrap(LaunchTokens'[l]).creator = c
                   ELSE IsSome(LaunchTokens'[l]) => Unwrap(LaunchTokens'[l]).creator # c

C25_DisconnectionIsPermanent ==
    /\ []C25_DisconnectedRefusesAll
    /\ [][C25_DisconnectedStep]_vars

\* A creator has been disconnected, a token of one of its launch tokens is
\* listed and an account other than its owner can buy it.
C25_Witness ==
    \E t \in LiveTokenIds, b \in Accounts, bid \in Prices :
        /\ Disconnected(TokenOf(t).creator)
        /\ IsSome(TokenOf(t).price)
        /\ TokenOf(t).owner # b
        /\ buy(Storage, b, t, bid).res = "Ok"

====
